---- MODULE Spec2Model ----
(***************************************************************************)
(* Smart Model Router: the rule-based prompt classifier                    *)
(* (app/router/classifier.py), the tier-to-model map and price table       *)
(* (app/config.py), the model router (app/router/model_clients.py) and the *)
(* /generate request handler with its accounting (app/main.py).            *)
(*                                                                         *)
(* Units.  Scores and confidences are Python floats that are multiples of  *)
(* 0.05; they are kept here as integers in thousandths (0.3 is 300).       *)
(* Prices are kept in units of 10^-7 USD per token (0.10 / 1_000_000 is 1) *)
(* and costs in units of 10^-7 USD.  Latencies are whole milliseconds; the *)
(* running average is an exact fraction <<numerator, denominator>>.        *)
(***************************************************************************)
EXTENDS Integers, Sequences, FiniteSets, TLC

\* ------------------------------------------------------------------ bounds
\* Longest prompt, in fragments of the lexicon below.
MaxFragments == 3
\* Number of /generate requests submitted in one run.
MaxRequests == 2

\* ------------------------------------------------------- classifier tables

\* classifier.py:13-20
complex_keywords ==
    { "write a", "create a", "build a", "develop",
      "analyze", "compare", "explain why", "reason",
      "architecture", "system design", "algorithm",
      "debug", "refactor", "optimize",
      "multi-step", "chain of thought", "reasoning",
      "creative writing", "story", "essay", "article" }

\* classifier.py:22-27
simple_keywords ==
    { "summarize", "what is", "define", "list",
      "translate", "convert", "format",
      "yes or no", "true or false",
      "capital of", "when was", "who is" }

\* classifier.py:76
reasoning_patterns == { "explain", "why", "how does", "reasoning", "analyze" }

(***************************************************************************)
(* Prompts.  A prompt is a non-empty sequence of text fragments joined by  *)
(* single spaces.  For each fragment the lexicon records what the          *)
(* classifier reads off its text: the number of whitespace-separated words *)
(* (prompt.split()), which keyword and pattern strings occur in its        *)
(* lower-cased text (kw in prompt_lower), whether _contains_code matches   *)
(* it, and how many "?" it holds.  No keyword arises across the space      *)
(* between two of these fragments, so the features of a prompt are the     *)
(* sums and unions of its fragments' features.                             *)
(*   rest_api   "Write a complete REST API with authentication"            *)
(*   capital    "What is the capital of France?"                           *)
(*   summarize  "Summarize this in 3 sentences"                            *)
(*   quantum    "Explain quantum computing vs classical computing"         *)
(*   hello      "hello there"                                              *)
(*   really     "really?"                                                  *)
(*   code       "```print(1)```"                                           *)
(*   reasoning  "tell me about reasoning"                                  *)
(*   debug      "debug and refactor"                                       *)
(*   long       "lorem" repeated 44 times                                  *)
(* The first four are the prompts of test_classifier.py:6-11.              *)
(***************************************************************************)
Lexicon ==
    [ rest_api  |-> [words |-> 7,  substrings |-> {"write a"},
                     code |-> FALSE, qmarks |-> 0],
      capital   |-> [words |-> 6,  substrings |-> {"what is", "capital of"},
                     code |-> FALSE, qmarks |-> 1],
      summarize |-> [words |-> 5,  substrings |-> {"summarize"},
                     code |-> FALSE, qmarks |-> 0],
      quantum   |-> [words |-> 6,  substrings |-> {"explain"},
                     code |-> FALSE, qmarks |-> 0],
      hello     |-> [words |-> 2,  substrings |-> {},
                     code |-> FALSE, qmarks |-> 0],
      really    |-> [words |-> 1,  substrings |-> {},
                     code |-> FALSE, qmarks |-> 1],
      code      |-> [words |-> 1,  substrings |-> {},
                     code |-> TRUE,  qmarks |-> 0],
      reasoning |-> [words |-> 4,  substrings |-> {"reason", "reasoning"},
                     code |-> FALSE, qmarks |-> 0],
      debug     |-> [words |-> 3,  substrings |-> {"debug", "refactor"},
                     code |-> FALSE, qmarks |-> 0],
      long      |-> [words |-> 44, substrings |-> {},
                     code |-> FALSE, qmarks |-> 0] ]

Fragments == DOMAIN Lexicon

RECURSIVE SumOver(_, _)
SumOver(prompt, field) ==
    IF prompt = <<>> THEN 0
    ELSE Lexicon[Head(prompt)][field] + SumOver(Tail(prompt), field)

\* classifier.py:42  len(prompt.split())
word_count(prompt) == SumOver(prompt, "words")

\* classifier.py:35  the keyword and pattern strings found in prompt_lower
Substrings(prompt) ==
    UNION { Lexicon[prompt[i]].substrings : i \in DOMAIN prompt }

\* classifier.py:51
complex_matches(prompt) ==
    Cardinality({ kw \in complex_keywords : kw \in Substrings(prompt) })

\* classifier.py:52
simple_matches(prompt) ==
    Cardinality({ kw \in simple_keywords : kw \in Substrings(prompt) })

\* classifier.py:98-112  _contains_code
contains_code(prompt) == \E i \in DOMAIN prompt : Lexicon[prompt[i]].code

\* classifier.py:67  prompt.count("?")
question_marks(prompt) == SumOver(prompt, "qmarks")

\* classifier.py:77
requires_reasoning(prompt) ==
    \E pattern \in reasoning_patterns : pattern \in Substrings(prompt)

\* ------------------------------------------------- classifier score steps
\* Each step is <<score delta in thousandths, rationale fragments>>.

\* A sign slip in the length check: a short prompt raises the score.
LengthStepSignSlip(prompt) ==
    IF word_count(prompt) < 10 THEN <<300, <<"short prompt">> >>
    ELSE IF word_count(prompt) > 50 THEN <<200, <<"long prompt">> >>
    ELSE <<0, <<>> >>

\* classifier.py:41-48
LengthStep(prompt) ==
    IF word_count(prompt) < 10 THEN <<-300, <<"short prompt">> >>
    ELSE IF word_count(prompt) > 50 THEN <<200, <<"long prompt">> >>
    ELSE <<0, <<>> >>

\* classifier.py:50-59
KeywordStep(prompt) ==
    IF complex_matches(prompt) > simple_matches(prompt)
    THEN <<400 * complex_matches(prompt), <<"complex keywords">> >>
    ELSE IF simple_matches(prompt) > 0
    THEN <<-300 * simple_matches(prompt), <<"simple keywords">> >>
    ELSE <<0, <<>> >>

\* classifier.py:61-64
CodeStep(prompt) ==
    IF contains_code(prompt) THEN <<300, <<"contains code">> >> ELSE <<0, <<>> >>

\* classifier.py:66-73
QuestionStep(prompt) ==
    IF question_marks(prompt) = 1 /\ word_count(prompt) < 15
    THEN <<-200, <<"single simple question">> >>
    ELSE IF question_marks(prompt) > 2
    THEN <<200, <<"multiple questions">> >>
    ELSE <<0, <<>> >>

\* classifier.py:75-79
ReasoningStep(prompt) ==
    IF requires_reasoning(prompt)
    THEN <<300, <<"requires reasoning">> >> ELSE <<0, <<>> >>

ScoreSteps(prompt) ==
    << LengthStep(prompt), KeywordStep(prompt), CodeStep(prompt),
       QuestionStep(prompt), ReasoningStep(prompt) >>

\* classifier.py:38-79  the score after the five steps
complexity_score(prompt) ==
    LET s == ScoreSteps(prompt)
    IN  s[1][1] + s[2][1] + s[3][1] + s[4][1] + s[5][1]

\* classifier.py:39,95  the rationale, in evaluation order
reasoning_trace(prompt) ==
    LET s == ScoreSteps(prompt)
    IN  s[1][2] \o s[2][2] \o s[3][2] \o s[4][2] \o s[5][2]

Abs(x) == IF x < 0 THEN -x ELSE x
Min(a, b) == IF a < b THEN a ELSE b

\* The simple threshold taken inclusively (<= -0.3 for < -0.3).
DifficultyOfInclusive(score) ==
    IF score <= -300 THEN "simple"
    ELSE IF score > 500 THEN "complex"
    ELSE "medium"

\* classifier.py:82-90  the tier of a final score
DifficultyOf(score) ==
    IF score < -300 THEN "simple"
    ELSE IF score > 500 THEN "complex"
    ELSE "medium"

\* The confidence with the min(0.9, ...) clamp left out.
ConfidenceOfUnclamped(score) ==
    IF DifficultyOf(score) = "simple" THEN 700 + Abs(score)
    ELSE IF DifficultyOf(score) = "complex" THEN 650 + (score * 3) \div 10
    ELSE 600

\* classifier.py:82-90  the confidence of a final score, in thousandths
ConfidenceOf(score) ==
    IF DifficultyOf(score) = "simple" THEN Min(900, 700 + Abs(score))
    ELSE IF DifficultyOf(score) = "complex"
    THEN Min(900, 650 + (score * 3) \div 10)
    ELSE 600

\* classifier.py:29-31, 33-96  classify / _classify_rule_based
classify(prompt) ==
    [ difficulty |-> DifficultyOf(complexity_score(prompt)),
      confidence |-> ConfidenceOf(complexity_score(prompt)),
      reasoning  |-> reasoning_trace(prompt) ]


\* --------------------------------------------------------- configuration

VARIABLES
    env,             \* the process environment read when app/config.py loads
    input_prompt,    \* classifier harness: the prompt being composed
    classified,      \* classifier harness: its ClassificationResult, or NotYet
    pc,              \* per request: "new", "queued", "invoking", "done"
    request,         \* per request: the validated PromptRequest
    classification,  \* per request: the ClassificationResult (main.py:62)
    model_used,      \* per request: the model name route_and_generate returns
    client_model,    \* per request: the model the client sends to the provider
    outcome,         \* per request: response_data, the backend's outcome
    commit_failed,   \* per request: whether a db.commit() of it raised
    result,          \* per request: what the caller receives
    request_logs,    \* table request_logs, in insertion order
    model_stats,     \* table model_stats: model_name -> row
    loop             \* the request whose handler holds the event loop, or 0

vars == << env, input_prompt, classified, pc, request, classification, model_used,
           client_model, outcome, commit_failed, result, request_logs,
           model_stats, loop >>

classifier_vars == << input_prompt, classified >>

server_vars == << pc, request, classification, model_used, client_model,
                  outcome, commit_failed, result, request_logs, model_stats,
                  loop >>

Unset == "<unset>"
None == "<None>"
NotYet == [difficulty |-> "<not yet>", confidence |-> 0, reasoning |-> << >>]

\* The environments the process may be started in: nothing overridden, or
\* SIMPLE_MODEL naming a model the price table does not list.
Environments ==
    { [SIMPLE_MODEL |-> Unset, MEDIUM_MODEL |-> Unset, COMPLEX_MODEL |-> Unset],
      [SIMPLE_MODEL |-> "phi-3-mini", MEDIUM_MODEL |-> Unset,
       COMPLEX_MODEL |-> Unset] }

\* os.getenv(name, default)
getenv(name, default) == IF env[name] = Unset THEN default ELSE env[name]

\* config.py:16-23  the model names, and the costs per 1M tokens (here per
\* token, in 10^-7 USD) at their defaults
settings ==
    [ simple_model   |-> getenv("SIMPLE_MODEL", "google/gemini-flash-1.5"),
      medium_model   |-> getenv("MEDIUM_MODEL", "anthropic/claude-3-haiku"),
      complex_model  |-> getenv("COMPLEX_MODEL", "anthropic/claude-3.5-sonnet"),
      phi3_cost      |-> 1,
      llama_70b_cost |-> 10,
      gpt4o_cost     |-> 30 ]

\* config.py:30-34, in 10^-7 USD per token.  There is no "gpt-4o" entry.
MODEL_COSTS ==
    ( "google/gemini-flash-1.5" :> 1 ) @@
    ( "anthropic/claude-3-haiku" :> 10 ) @@
    ( "anthropic/claude-3.5-sonnet" :> 30 )

\* config.py:37-41
DIFFICULTY_TO_MODEL ==
    [ simple  |-> settings.simple_model,
      medium  |-> settings.medium_model,
      complex |-> settings.complex_model ]

\* ----------------------------------------------------------------- router

\* get_client without line 125: the client keeps the model hardcoded at
\* model_clients.py:27.
get_client_hardcoded(model_name) == [model |-> "qwen/qwen-2-7b-instruct:free"]

\* model_clients.py:121-126
get_client(model_name) == [model |-> model_name]

\* What the provider call at model_clients.py:33-38 can do: raise (a
\* transport failure such as a timeout, an authentication failure, a provider
\* failure such as a non-2xx or malformed answer), or return a completion with
\* a usage block <<total_tokens>> or without one.
NoUsage == << >>
TokenChoices == {40}
ProviderFailures == {"timeout", "auth", "provider"}
ProviderReplies ==
    { [kind |-> "exception", error |-> f, usage |-> NoUsage] :
          f \in ProviderFailures }
    \cup { [kind |-> "completion", error |-> "", usage |-> NoUsage] }
    \cup { [kind |-> "completion", error |-> "", usage |-> <<t>>] :
              t \in TokenChoices }

\* model_clients.py:50, 108  f"Error: {str(e)}"
ErrorText ==
    [ timeout  |-> "Error: timeout",
      auth     |-> "Error: auth",
      provider |-> "Error: provider" ]

\* Elapsed wall-clock milliseconds of a call.
LatencyChoices == {100, 250}

\* OpenAIClient.generate with an except clause that names the timeout alone:
\* any other exception leaves generate and route_and_generate.  The record
\* with status "raised" stands for the exception in flight; no outcome is
\* returned.
OpenAIClient_generate_timeout_only(reply, elapsed) ==
    IF reply.kind = "completion"
    THEN [ response    |-> "completion",
           tokens_used |-> IF reply.usage # NoUsage THEN reply.usage[1] ELSE 100,
           latency_ms  |-> elapsed,
           status      |-> "success" ]
    ELSE IF reply.error = "timeout"
    THEN [ response    |-> ErrorText[reply.error],
           tokens_used |-> 0,
           latency_ms  |-> elapsed,
           status      |-> "error" ]
    ELSE [ response    |-> ErrorText[reply.error],
           tokens_used |-> 0,
           latency_ms  |-> 0,
           status      |-> "raised" ]

\* model_clients.py:29-54  OpenAIClient.generate: the provider call and the
\* reading of its answer are inside try, and except Exception turns whatever
\* they raise into an outcome.
OpenAIClient_generate(reply, elapsed) ==
    IF reply.kind = "completion"
    THEN [ response    |-> "completion",
           tokens_used |-> IF reply.usage # NoUsage THEN reply.usage[1] ELSE 100,
           latency_ms  |-> elapsed,
           status      |-> "success" ]
    ELSE [ response    |-> ErrorText[reply.error],
           tokens_used |-> 0,
           latency_ms  |-> elapsed,
           status      |-> "error" ]

\* ------------------------------------------------------------- accounting

RECURSIVE GCD(_, _)
GCD(a, b) == IF b = 0 THEN a ELSE GCD(b, a % b)

\* The fraction num/den in lowest terms (den > 0, num >= 0).
Fraction(num, den) ==
    LET g == GCD(num, den) IN << num \div g, den \div g >>

\* main.py:81-86  the two price lookups and the cost arithmetic.  A model
\* name that is not a key of MODEL_COSTS raises KeyError.
Costs(model, tokens_used) ==
    IF model \notin DOMAIN MODEL_COSTS THEN [raised |-> "KeyError"]
    ELSE IF "gpt-4o" \notin DOMAIN MODEL_COSTS THEN [raised |-> "KeyError"]
    ELSE [ raised      |-> "none",
           actual_cost |-> tokens_used * MODEL_COSTS[model],
           cost_saved  |-> tokens_used * MODEL_COSTS["gpt-4o"]
                           - tokens_used * MODEL_COSTS[model] ]

\* round(x, 6) of a cost in 10^-7 USD: to the nearest 10^-6 USD, a tie to
\* the even digit.
Round6(x) ==
    LET q == x \div 10
        r == x % 10
    IN  IF r > 5 \/ (r = 5 /\ q % 2 = 1) THEN 10 * (q + 1) ELSE 10 * q

\* main.py:89-102  the success RequestLog (r is the request, kept to tell
\* the rows of different requests apart).
SuccessLog(r, id, response_data, total_latency, costs) ==
    [ id              |-> id,
      req             |-> r,
      prompt          |-> request[r].prompt,
      prompt_tokens   |-> response_data.tokens_used,
      difficulty      |-> classification[r].difficulty,
      confidence      |-> classification[r].confidence,
      selected_model  |-> model_used[r],
      response        |-> response_data.response,
      response_tokens |-> response_data.tokens_used,
      latency_ms      |-> total_latency,
      cost_usd        |-> costs.actual_cost,
      cost_saved_usd  |-> costs.cost_saved,
      user_id         |-> request[r].user_id,
      status          |-> "success" ]

\* main.py:145-153  the error RequestLog; the columns it does not set are NULL.
ErrorLog(r, id) ==
    [ id              |-> id,
      req             |-> r,
      prompt          |-> request[r].prompt,
      prompt_tokens   |-> None,
      difficulty      |-> "unknown",
      confidence      |-> 0,
      selected_model  |-> "error",
      response        |-> "Error",
      response_tokens |-> None,
      latency_ms      |-> None,
      cost_usd        |-> None,
      cost_saved_usd  |-> None,
      user_id         |-> request[r].user_id,
      status          |-> "error" ]

\* main.py:106-123  the model_stats row of the model after this request
UpdatedStat(stats, model, tokens_used, actual_cost, total_latency) ==
    IF model \in DOMAIN stats
    THEN LET old == stats[model]
             n   == old.total_requests + 1
         IN  [ total_requests |-> n,
               total_tokens   |-> old.total_tokens + tokens_used,
               total_cost_usd |-> old.total_cost_usd + actual_cost,
               avg_latency_ms |->
                   Fraction(old.avg_latency_ms[1] * (n - 1)
                              + total_latency * old.avg_latency_ms[2],
                            old.avg_latency_ms[2] * n) ]
    ELSE [ total_requests |-> 1,
           total_tokens   |-> tokens_used,
           total_cost_usd |-> actual_cost,
           avg_latency_ms |-> << total_latency, 1 >> ]

\* The next primary key of request_logs.
NextId(logs) == Len(logs) + 1

\* main.py:129-139  the RouterResponse
RouterResponse(r, id, response_data, total_latency, costs) ==
    [ kind           |-> "ok",
      status_code    |-> 200,
      detail         |-> << >>,
      model_used     |-> model_used[r],
      difficulty     |-> classification[r].difficulty,
      tokens_used    |-> response_data.tokens_used,
      cost_usd       |-> Round6(costs.actual_cost),
      cost_saved_usd |-> Round6(costs.cost_saved),
      latency_ms     |-> total_latency,
      request_id     |-> id ]

\* An HTTP 500 answer.
Failure(detail) ==
    [ kind |-> "failure", status_code |-> 500, detail |-> detail ]


\* The error branch with the failed request also counted in the aggregate of
\* the model it was routed to.
ExceptException_counting(r, exc, error_commit_ok, failed_before) ==
    IF error_commit_ok
    THEN [ logs          |-> Append(request_logs,
                                    ErrorLog(r, NextId(request_logs))),
           stats         |-> (model_used[r] :>
                                 UpdatedStat(model_stats, model_used[r],
                                             0, 0, 0))
                             @@ model_stats,
           result        |-> Failure(<<"Internal error", exc>>),
           commit_failed |-> failed_before ]
    ELSE [ logs          |-> request_logs,
           stats         |-> model_stats,
           result        |-> Failure(<<"Unhandled", "CommitError">>),
           commit_failed |-> TRUE ]

\* main.py:143-157  the handler's except Exception branch: add the error
\* RequestLog and commit, then raise HTTPException(500).  When that commit
\* raises too, the exception leaves the handler, get_db rolls the session
\* back (database.py:65-67) and the server answers 500.
ExceptException(r, exc, error_commit_ok, failed_before) ==
    IF error_commit_ok
    THEN [ logs          |-> Append(request_logs,
                                    ErrorLog(r, NextId(request_logs))),
           stats         |-> model_stats,
           result        |-> Failure(<<"Internal error", exc>>),
           commit_failed |-> failed_before ]
    ELSE [ logs          |-> request_logs,
           stats         |-> model_stats,
           result        |-> Failure(<<"Unhandled", "CommitError">>),
           commit_failed |-> TRUE ]

\* The handler with its accounting made best-effort: an exception between
\* the backend's answer and the commit is swallowed and the generated text is
\* returned all the same.
generate_after_invoke_swallowing(r, response_data, total_latency, commit_ok, error_commit_ok) ==
    LET costs == Costs(model_used[r], response_data.tokens_used)
        id    == NextId(request_logs)
    IN  IF response_data.status = "error"
        THEN [ logs          |-> request_logs,
               stats         |-> model_stats,
               result        |-> Failure(<<"Backend error", "HTTPException">>),
               commit_failed |-> FALSE ]
        ELSE IF costs.raised = "none" /\ commit_ok
        THEN [ logs   |-> Append(request_logs,
                                 SuccessLog(r, id, response_data,
                                            total_latency, costs)),
               stats  |-> (model_used[r] :>
                              UpdatedStat(model_stats, model_used[r],
                                          response_data.tokens_used,
                                          costs.actual_cost, total_latency))
                          @@ model_stats,
               result |-> RouterResponse(r, id, response_data,
                                         total_latency, costs),
               commit_failed |-> FALSE ]
        ELSE [ logs          |-> request_logs,
               stats         |-> model_stats,
               result        |-> [ kind |-> "ok", status_code |-> 200,
                                   detail |-> << >>, request_id |-> None ],
               commit_failed |-> costs.raised = "none" ]

\* main.py:72-157  the handler from the backend's answer to its own: the
\* error check, the costs, the success RequestLog and the model_stats update
\* committed together (db.commit, line 125), and the two except clauses.
\* commit_ok and error_commit_ok say whether the commit at line 125 and the
\* one at line 155 go through.  A commit that raises rolls its transaction
\* back, so none of its pending rows is stored.
generate_after_invoke(r, response_data, total_latency, commit_ok, error_commit_ok) ==
    LET costs == Costs(model_used[r], response_data.tokens_used)
        id    == NextId(request_logs)
    IN  IF response_data.status = "raised"
        THEN \* an exception out of route_and_generate (line 65) is caught
             \* by except Exception (line 143)
             ExceptException(r, "ProviderError", error_commit_ok, FALSE)
        ELSE IF response_data.status = "error"
        THEN \* lines 73-74 and 141-142: HTTPException, re-raised unlogged
             [ logs          |-> request_logs,
               stats         |-> model_stats,
               result        |-> Failure(<<"Backend error", "HTTPException">>),
               commit_failed |-> FALSE ]
        ELSE IF costs.raised # "none"
        THEN ExceptException(r, costs.raised, error_commit_ok, FALSE)
        ELSE IF commit_ok
        THEN [ logs   |-> Append(request_logs,
                                 SuccessLog(r, id, response_data,
                                            total_latency, costs)),
               stats  |-> (model_used[r] :>
                              UpdatedStat(model_stats, model_used[r],
                                          response_data.tokens_used,
                                          costs.actual_cost, total_latency))
                          @@ model_stats,
               result |-> RouterResponse(r, id, response_data,
                                         total_latency, costs),
               commit_failed |-> FALSE ]
        ELSE ExceptException(r, "CommitError", error_commit_ok, TRUE)

\* ------------------------------------------------------------ the server

Requests == 1 .. MaxRequests

\* The prompts the requests carry: one of each tier.
RequestPrompts == { <<"capital">>, <<"rest_api">>, <<"reasoning">> }

\* models.py:5-10  a PromptRequest that passed validation, with the defaults
\* of the optional fields (temperature 0.7 in thousandths).
PromptRequest(p) ==
    [ prompt |-> p, user_id |-> None, max_tokens |-> 1000,
      temperature |-> 700 ]

\* What a request's variables hold before the handler has set them.
NoRequest ==
    [ prompt |-> << >>, user_id |-> None, max_tokens |-> 0, temperature |-> 0 ]
NoOutcome ==
    [ response |-> "", tokens_used |-> 0, latency_ms |-> 0, status |-> "<none>" ]
NoResult == [ kind |-> "<none>", status_code |-> 0, detail |-> << >> ]

Init ==
    /\ env \in Environments
    /\ input_prompt = <<>>
    /\ classified = NotYet
    /\ pc = [r \in Requests |-> "new"]
    /\ request = [r \in Requests |-> NoRequest]
    /\ classification = [r \in Requests |-> NotYet]
    /\ model_used = [r \in Requests |-> None]
    /\ client_model = [r \in Requests |-> None]
    /\ outcome = [r \in Requests |-> NoOutcome]
    /\ commit_failed = [r \in Requests |-> FALSE]
    /\ result = [r \in Requests |-> NoResult]
    /\ request_logs = <<>>
    /\ model_stats = <<>>
    /\ loop = 0

\* A client posts a valid request to /generate (main.py:50-54); requests are
\* numbered in the order they arrive.
Submit(r, p) ==
    /\ pc[r] = "new"
    /\ \A q \in Requests : q < r => pc[q] # "new"
    /\ pc' = [pc EXCEPT ![r] = "queued"]
    /\ request' = [request EXCEPT ![r] = PromptRequest(p)]
    /\ UNCHANGED << env, classifier_vars, classification, model_used,
                    client_model, outcome, commit_failed, result,
                    request_logs, model_stats, loop >>

\* The event loop starts the handler of a waiting request: main.py:58-70 and
\* route_and_generate up to the provider call (model_clients.py:136-141,
\* 30-33).  The handler is a coroutine on the server's one event loop, and the
\* provider call it reaches, self.client.chat.completions.create of the
\* synchronous OpenAI client, does not yield: the loop is this handler's
\* until the handler ends.
Begin(r) ==
    /\ pc[r] = "queued"
    /\ loop = 0
    /\ LET c == classify(request[r].prompt)
           model_name == DIFFICULTY_TO_MODEL[c.difficulty]
       IN  /\ classification' = [classification EXCEPT ![r] = c]
           /\ model_used' = [model_used EXCEPT ![r] = model_name]
           /\ client_model' =
                  [client_model EXCEPT ![r] = get_client(model_name).model]
    /\ loop' = r
    /\ pc' = [pc EXCEPT ![r] = "invoking"]
    /\ UNCHANGED << env, classifier_vars, request, outcome, commit_failed,
                    result, request_logs, model_stats >>

\* The provider call returns or raises, and the handler runs to its end
\* without yielding (model_clients.py:40-54, 143; main.py:72-157).
Finish(r, reply, elapsed, commit_ok, error_commit_ok) ==
    /\ pc[r] = "invoking"
    /\ loop = r
    /\ LET response_data == OpenAIClient_generate(reply, elapsed)
           h == generate_after_invoke(r, response_data, elapsed,
                                      commit_ok, error_commit_ok)
       IN  /\ outcome' = [outcome EXCEPT ![r] = response_data]
           /\ request_logs' = h.logs
           /\ model_stats' = h.stats
           /\ result' = [result EXCEPT ![r] = h.result]
           /\ commit_failed' = [commit_failed EXCEPT ![r] = h.commit_failed]
    /\ loop' = 0
    /\ pc' = [pc EXCEPT ![r] = "done"]
    /\ UNCHANGED << env, classifier_vars, request, classification,
                    model_used, client_model >>

Next ==
    \E r \in Requests :
        \/ \E p \in RequestPrompts : Submit(r, p)
        \/ Begin(r)
        \/ \E reply \in ProviderReplies, elapsed \in LatencyChoices,
              commit_ok \in BOOLEAN, error_commit_ok \in BOOLEAN :
               Finish(r, reply, elapsed, commit_ok, error_commit_ok)

Spec == Init /\ [][Next]_vars

\* --------------------------------------------------- classifier harness

\* test_classifier.py:6-11  a prompt is put together
Compose(f) ==
    /\ Len(input_prompt) < MaxFragments
    /\ input_prompt' = Append(input_prompt, f)
    /\ classified' = NotYet
    /\ UNCHANGED << env, server_vars >>

\* test_classifier.py:13-14  classifier.classify(prompt)
Classify ==
    /\ input_prompt # <<>>
    /\ classified = NotYet
    /\ classified' = classify(input_prompt)
    /\ UNCHANGED << env, input_prompt, server_vars >>

ClassifierNext == (\E f \in Fragments : Compose(f)) \/ Classify

ClassifierSpec == Init /\ [][ClassifierNext]_vars


\* ------------------------------------------------------------ the claims

\* The row of request_logs, if any, that request r stored with this status.
Recorded(r, status) ==
    \E i \in DOMAIN request_logs :
        request_logs[i].req = r /\ request_logs[i].status = status

\* C1: every request whose backend invocation returned status=error has, once
\* it has returned, a persisted error RequestRecord with cost 0, and its
\* caller received a failure.
C1_BackendErrorIsRecorded ==
    \A r \in Requests :
        (pc[r] = "done" /\ outcome[r].status = "error") =>
            /\ result[r].kind = "failure"
            /\ \E i \in DOMAIN request_logs :
                   /\ request_logs[i].req = r
                   /\ request_logs[i].status = "error"
                   /\ request_logs[i].cost_usd = 0

\* C2: every request whose backend outcome is success (and whose commits go
\* through) returns a result whose record has costUsd = tokens * price(backend
\* used) and costSavedUsd = tokens * (baseline price - price(backend used)).
C2_CostsOfSuccess ==
    \A r \in Requests :
        (/\ pc[r] = "done"
         /\ outcome[r].status = "success"
         /\ ~ commit_failed[r]) =>
            /\ result[r].kind = "ok"
            /\ \E i \in DOMAIN request_logs :
                   /\ request_logs[i].req = r
                   /\ request_logs[i].status = "success"
                   /\ request_logs[i].cost_usd =
                          outcome[r].tokens_used * MODEL_COSTS[model_used[r]]
                   /\ request_logs[i].cost_saved_usd =
                          outcome[r].tokens_used
                            * (settings.gpt4o_cost - MODEL_COSTS[model_used[r]])

\* The requests completed with a successful backend outcome on model m and
\* no failed commit.
Succeeded(m) ==
    { r \in Requests :
        /\ pc[r] = "done"
        /\ outcome[r].status = "success"
        /\ ~ commit_failed[r]
        /\ model_used[r] = m }

RECURSIVE LatencySum(_)
LatencySum(S) ==
    IF S = {} THEN 0
    ELSE LET r == CHOOSE x \in S : TRUE
         IN  outcome[r].latency_ms + LatencySum(S \ {r})

\* C3: after n successful requests to one backend have completed, in any
\* interleaving, that backend's aggregate average latency is the arithmetic
\* mean of the n observed latencies.
C3_AverageIsMean ==
    \A m \in { DIFFICULTY_TO_MODEL[d] : d \in DOMAIN DIFFICULTY_TO_MODEL } :
        Succeeded(m) # {} =>
            /\ m \in DOMAIN model_stats
            /\ model_stats[m].avg_latency_ms =
                   Fraction(LatencySum(Succeeded(m)),
                            Cardinality(Succeeded(m)))

\* None of the keyword, code and question-form signals fires on prompt p.
NoKeywordCodeQuestionSignal(p) ==
    /\ KeywordStep(p)[2] = << >>
    /\ CodeStep(p)[2] = << >>
    /\ QuestionStep(p)[2] = << >>

HasClassified == classified.difficulty # NotYet.difficulty

\* C4 as stated: a prompt of fewer than 10 words on which no keyword, code or
\* question-form signal fires is classified simple, with confidence in
\* [0.7, 0.9].
C4_ShortPlainIsSimple ==
    (/\ HasClassified
     /\ word_count(input_prompt) < 10
     /\ NoKeywordCodeQuestionSignal(input_prompt)) =>
        /\ classified.difficulty = "simple"
        /\ classified.confidence >= 700
        /\ classified.confidence <= 900

\* C4, amended: a prompt of fewer than 10 words on which no keyword, code or
\* question-form signal fires is classified medium, with confidence 0.6 (its
\* score is -0.3, or 0.0 with the reasoning signal, and -0.3 is not below
\* the simple threshold of -0.3).
C4_ShortPlainIsMedium ==
    (/\ HasClassified
     /\ word_count(input_prompt) < 10
     /\ NoKeywordCodeQuestionSignal(input_prompt)) =>
        /\ classified.difficulty = "medium"
        /\ classified.confidence = 600

C4_Witness ==
    /\ HasClassified
    /\ input_prompt = << "hello", "hello" >>
    /\ NoKeywordCodeQuestionSignal(input_prompt)
    /\ complexity_score(input_prompt) = -300
    /\ classified.difficulty = "medium"

\* The features of the example "Write a complete REST API with
\* authentication": under 10 words, one complex keyword, no simple keyword,
\* no code, no question mark, no reasoning indicator.
LikeTheRestApiExample(p) ==
    /\ word_count(p) < 10
    /\ complex_matches(p) = 1
    /\ simple_matches(p) = 0
    /\ ~ contains_code(p)
    /\ question_marks(p) = 0
    /\ ~ requires_reasoning(p)

\* C5 as stated: a prompt with a complex keyword and no simple keyword, as
\* the example "Write a complete REST API with authentication", is
\* classified complex.
C5_ExampleIsComplex ==
    (HasClassified /\ LikeTheRestApiExample(input_prompt)) =>
        classified.difficulty = "complex"

\* C5, amended: such a prompt is classified medium, with confidence 0.6 (its
\* score is -0.3 + 0.4 = 0.1, which is not above the complex threshold 0.5).
C5_ExampleIsMedium ==
    (HasClassified /\ LikeTheRestApiExample(input_prompt)) =>
        /\ classified.difficulty = "medium"
        /\ classified.confidence = 600

C5_Witness ==
    /\ HasClassified
    /\ input_prompt = << "rest_api" >>
    /\ LikeTheRestApiExample(input_prompt)
    /\ complexity_score(input_prompt) = 100
    /\ classified.difficulty = "medium"

\* C6: for any prompt, the confidence classify returns is within [0, 0.9]
\* when the tier is simple or complex and is exactly 0.6 when it is medium.
C6_ConfidenceRange ==
    HasClassified =>
        /\ classified.difficulty \in {"simple", "medium", "complex"}
        /\ classified.difficulty \in {"simple", "complex"} =>
               (classified.confidence >= 0 /\ classified.confidence <= 900)
        /\ classified.difficulty = "medium" => classified.confidence = 600

\* The clamp at 0.9 has acted: the unclamped confidence is above it.
C6_Witness ==
    /\ HasClassified
    /\ classified.difficulty = "complex"
    /\ 650 + (complexity_score(input_prompt) * 3) \div 10 > 900
    /\ classified.confidence = 900

\* C7: no request fails at request time because a backend or a price is
\* missing.
C7_NoMissingPriceAtRequestTime ==
    \A r \in Requests :
        pc[r] = "done" => result[r].detail # << "Internal error", "KeyError" >>

\* C8: while one request waits on its backend invocation, another submitted
\* request can start (be classified and invoke its own backend).
C8_OthersProgress ==
    \A r1, r2 \in Requests :
        (r1 # r2 /\ pc[r1] = "invoking" /\ pc[r2] = "queued") =>
            ENABLED Begin(r2)

\* C9: a request whose backend invocation succeeded and one of whose commits
\* failed returns a failure, and a success response is returned only when the
\* request's success RequestRecord has been committed.
C9_SuccessOnlyAfterCommit ==
    \A r \in Requests :
        pc[r] = "done" =>
            /\ (outcome[r].status = "success" /\ commit_failed[r]) =>
                   result[r].kind = "failure"
            /\ result[r].kind = "ok" => Recorded(r, "success")

C9_Witness ==
    \E r \in Requests :
        /\ pc[r] = "done"
        /\ outcome[r].status = "success"
        /\ commit_failed[r]
        /\ result[r].kind = "failure"
        /\ ~ Recorded(r, "success")

\* The tier classify returns for each prompt a request may carry.
ClassifierTier == [p \in RequestPrompts |-> classify(p).difficulty]

C11_FailuresAreOutcomes ==
    \A r \in Requests :
        pc[r] = "done" =>
            /\ outcome[r].status \in {"success", "error"}
            /\ result[r].detail # << "Internal error", "ProviderError" >>
            /\ (\E f \in ProviderFailures : outcome[r].response = ErrorText[f])
                   => /\ outcome[r].status = "error"
                      /\ outcome[r].tokens_used = 0
                      /\ outcome[r].latency_ms \in LatencyChoices

C11_Witness ==
    \E r1, r2 \in Requests :
        /\ pc[r1] = "done"
        /\ outcome[r1].response = ErrorText["auth"]
        /\ outcome[r1].status = "error"
        /\ outcome[r1].tokens_used = 0
        /\ outcome[r1].latency_ms = 250
        /\ pc[r2] = "done"
        /\ outcome[r2].response = ErrorText["timeout"]
        /\ outcome[r2].status = "error"

\* The persisted success rows that name model m (main.py:163 with the model's
\* name as a further filter).
SuccessRows(m) ==
    { i \in DOMAIN request_logs :
        /\ request_logs[i].status = "success"
        /\ request_logs[i].selected_model = m }

RECURSIVE TokenSum(_)
TokenSum(I) ==
    IF I = {} THEN 0
    ELSE LET i == CHOOSE x \in I : TRUE
         IN  request_logs[i].response_tokens + TokenSum(I \ {i})

\* C12: in every reachable state the persisted aggregates agree with the
\* persisted success records: for each backend the aggregate's request count
\* is the number of success records naming it and its token total is the sum
\* of their token counts (both 0 where there is no aggregate row); error
\* records touch no aggregate.
C12_AggregatesAgreeWithRecords ==
    \A m \in DOMAIN model_stats
               \cup { request_logs[i].selected_model : i \in DOMAIN request_logs } :
        IF m \in DOMAIN model_stats
        THEN /\ model_stats[m].total_requests = Cardinality(SuccessRows(m))
             /\ model_stats[m].total_tokens = TokenSum(SuccessRows(m))
        ELSE SuccessRows(m) = {}

C12_Witness ==
    /\ \A r \in Requests : pc[r] = "done"
    /\ \E r \in Requests :
           /\ outcome[r].status = "success"
           /\ result[r].detail = << "Internal error", "KeyError" >>
           /\ \E i \in DOMAIN request_logs :
                  /\ request_logs[i].req = r
                  /\ request_logs[i].status = "error"
    /\ \E r \in Requests : commit_failed[r]
    /\ \A m \in DOMAIN model_stats :
           model_stats[m].total_requests = Cardinality(SuccessRows(m))

====
